---- MODULE Spec2Model ----
(***************************************************************************)
(* The access-control core of the CHURCHOS backend: token verification     *)
(* (app/auth.py verify_firebase_token), user resolution with provisioning  *)
(* on first login (get_current_user), the EXOUSIA role hierarchy           *)
(* (check_role_permission, require_role, require_minimum_role,             *)
(* get_user_permissions) and role assignment (routers/scroll_seal.py       *)
(* assign_role), over the users table of app/models.py; with the guards    *)
(* of routers/scroll_seal.py and routers/scroll_license.py, the            *)
(* application's exception handler (app/main.py), one feature handler      *)
(* (routers/prayer_portal.py start_stream) and the permission tables of    *)
(* GET /roles and GET /my-permissions (routers/scroll_seal.py).            *)
(*                                                                         *)
(* Requests are served concurrently and share nothing but the database,   *)
(* so one step of the model is one request doing one database operation   *)
(* (or one purely local stage); steps of different requests interleave     *)
(* freely.  Requests run the same code and differ only in what they have   *)
(* done so far, so the requests in flight or answered are kept as a bag of *)
(* their local states.  Timestamps are compared in one time zone.          *)
(***************************************************************************)
EXTENDS Integers, Sequences, FiniteSets, Bags

\* ---------------------------------------------------------------- bounds
NumReqs == 2
Now == 2
MaxTime == 3

\* ------------------------------------------------------------ data model
\* RoleEnum
Roles == {"Deacon", "Elder", "Apostle", "Nation Seer"}

Subjects == {"s1", "s2"}

\* token_data.get("email", "") : an absent email claim is taken as ""
Emails == {"", "a"}

\* a falsy exp claim (absent, or 0) is never compared with the clock
NoExp == 0

\* the claim is absent from the decoded token
NoClaim == "<absent>"

\* what auth.verify_id_token does with the raw credential: it returns the
\* decoded claims ("ok") or raises one of its errors
ProviderErrors ==
    {"ExpiredIdTokenError", "RevokedIdTokenError", "InvalidIdTokenError", "Exception"}

ErrorToken(e) ==
    [res |-> e, uid |-> "", email |-> "", name |-> NoClaim,
     display_name |-> NoClaim, exp |-> NoExp]

DecodedToken(uid, email, exp) ==
    [res |-> "ok", uid |-> uid, email |-> email, name |-> NoClaim,
     display_name |-> NoClaim, exp |-> exp]

\* decoded claims that carry a name claim, a display_name claim, or both
NamedToken(uid, email, name, display_name) ==
    [DecodedToken(uid, email, NoExp) EXCEPT !.name = name, !.display_name = display_name]

\* the credentials presented: the provider's errors, decoded claims without
\* a uid, every subject with every email, every expiry around the clock,
\* and every combination of the two name claims
Tokens ==
    {ErrorToken(e) : e \in ProviderErrors}
    \cup {DecodedToken("", "", MaxTime)}
    \cup {DecodedToken(u, e, NoExp) : u \in Subjects, e \in Emails}
    \cup {DecodedToken("s1", "a", x) : x \in 1..MaxTime}
    \cup {NamedToken("s1", "a", n, d) : n \in {NoClaim, "N"}, d \in {NoClaim, "D"}}

\* a row of the users table; its id is its position in the table
NewUser(uid, email, name) ==
    [firebase_uid |-> uid, email |-> email, name |-> name,
     role |-> "Deacon", is_active |-> TRUE]

SeedUser(role) ==
    [firebase_uid |-> "s1", email |-> "a", name |-> "Seed",
     role |-> role, is_active |-> TRUE]

\* users: the users table; sessions: the number of rows of the
\* prayer_sessions table; reqs: the requests; last: what the latest step
\* did; lastResolved: the credential of the latest resolve that the store
\* has not been written since; seeded: the users table as the application
\* found it when it started
VARIABLES users, sessions, reqs, last, lastResolved, seeded

vars == <<users, sessions, reqs, last, lastResolved, seeded>>

\* the local state of a request that has just arrived
NewReq ==
    [pc |-> "idle", uid |-> "", email |-> "", name |-> "", display_name |-> "",
     cur |-> 0, role |-> "",
     ended |-> "", read |-> FALSE, wrote |-> FALSE, branch |-> "",
     body |-> [user_id |-> 0, role |-> ""], target |-> 0]

NoEvent == [op |-> "none"]

NoPrior == [uid |-> "", email |-> "", id |-> 0]

Init ==
    /\ users \in {<< >>} \cup {<<SeedUser(role)>> : role \in Roles}
    /\ sessions = 0
    /\ seeded = users
    /\ reqs = EmptyBag
    /\ last = NoEvent
    /\ lastResolved = NoPrior

\* ------------------------------------------------------- Token Verifier
\* the try block of verify_firebase_token: what it raises, if anything
verify_try(tok) ==
    IF tok.res # "ok" THEN [raised |-> tok.res, detail |-> << >>]
    ELSE IF tok.uid = ""
    THEN [raised |-> "HTTPException", detail |-> <<"Invalid token: missing user ID">>]
    ELSE IF tok.exp # NoExp /\ tok.exp < Now
    THEN [raised |-> "HTTPException", detail |-> <<"Token expired">>]
    ELSE [raised |-> "none", detail |-> << >>]

\* an error the provider does not classify is reported as an internal error
C20_ProviderErrorAs500(tok) ==
    LET t == verify_try(tok) IN
    CASE t.raised = "none" ->
            [status |-> 200, detail |-> << >>, challenge |-> FALSE]
      [] t.raised = "Exception" ->
            [status |-> 500, detail |-> <<"Authentication failed">>, challenge |-> FALSE]
      [] OTHER ->
            [status |-> 401, detail |-> <<"Authentication failed">>, challenge |-> TRUE]

\* the except clauses, in order; the last one catches every Exception,
\* the HTTPExceptions raised inside the try block included
verify_firebase_token(tok) ==
    LET t == verify_try(tok) IN
    CASE t.raised = "none" ->
            [status |-> 200, detail |-> << >>, challenge |-> FALSE]
      [] t.raised = "ExpiredIdTokenError" ->
            [status |-> 401, detail |-> <<"Token expired">>, challenge |-> TRUE]
      [] t.raised = "RevokedIdTokenError" ->
            [status |-> 401, detail |-> <<"Token revoked">>, challenge |-> TRUE]
      [] t.raised = "InvalidIdTokenError" ->
            [status |-> 401, detail |-> <<"Invalid token">>, challenge |-> TRUE]
      [] OTHER ->
            [status |-> 401, detail |-> <<"Authentication failed">>, challenge |-> TRUE]

\* headers={"WWW-Authenticate": "Bearer"} of the HTTPExceptions raised by
\* verify_firebase_token
exc_headers(exc) ==
    IF exc.challenge THEN {<<"WWW-Authenticate", "Bearer">>} ELSE {}

\* the application's handler for HTTPException: the response it builds from
\* the exception, a JSONResponse given a status code and a content
http_exception_handler(exc) ==
    [status_code |-> exc.status,
     content |-> [error |-> exc.detail, status_code |-> exc.status,
                  message |-> "Sacred error occurred"],
     headers |-> {}]

\* no response yet: the request goes on
NoResponse == [status_code |-> 0, content |-> << >>, headers |-> {}]

\* the stage of the pipeline that answered the request: the Token Verifier
\* (401), the User Directory (500), or the guard and the handler behind it
EndedIn(status) ==
    CASE status = 401 -> "verify"
      [] status = 500 -> "resolve"
      [] OTHER -> "handler"

\* the request has been answered: its locals are gone, what stays is where
\* it ended and what it did (the branch of resolve it took, the subject of a
\* first login, whether it queried and whether it committed to the store)
Finish(q, status) ==
    [NewReq EXCEPT !.pc = "done", !.ended = EndedIn(status),
                    !.uid = IF q.branch = "create" THEN q.uid ELSE "",
                    !.branch = q.branch,
                    !.read = q.read, !.wrote = q.wrote]

\* get_current_user has returned the user; the request still stands for
\* the credential (subject, email) it was made with
Return(q, id, role) ==
    [q EXCEPT !.pc = "check", !.cur = id, !.role = role,
              !.name = "", !.display_name = ""]

\* the lookup runs whatever the verifier said
C10_ResolveAnyway(status) == "resolve"

\* a verified request goes straight to its guard
C11_SkipResolve(status) == IF status = 200 THEN "check" ELSE "done"

\* the pipeline stage that follows token verification
AfterVerify(status) == IF status = 200 THEN "resolve" ELSE "done"

\* the display_name claim is not looked at
C13_IgnoreDisplayName(tok) ==
    IF tok.name # NoClaim THEN tok.name ELSE "Unknown User"

\* token_data.get("name", token_data.get("display_name", "Unknown User"))
token_name(tok) ==
    IF tok.name # NoClaim THEN tok.name
    ELSE IF tok.display_name # NoClaim THEN tok.display_name
    ELSE "Unknown User"

\* the requests: all that have arrived, and those still being served
Requests == BagToSet(reqs)

InFlight == {q \in Requests : q.pc # "done"}

\* request q moves on to local state q2
Step(q, q2) == (reqs (-) SetToBag({q})) (+) SetToBag({q2})

\* a request arrives and its credential is verified
Verify ==
    /\ BagCardinality(reqs) < NumReqs
    /\ \E tok \in Tokens :
         LET v == verify_firebase_token(tok)
             q == [NewReq EXCEPT !.pc = AfterVerify(v.status),
                                 !.uid = tok.uid,
                                 !.email = tok.email,
                                 !.name = tok.name,
                                 !.display_name = tok.display_name,
                                 !.ended = IF v.status = 200 THEN "" ELSE EndedIn(v.status)]
         IN
         /\ reqs' = reqs (+) SetToBag({IF q.pc = "done" THEN Finish(q, v.status) ELSE q})
         /\ last' = [op |-> "verify", tok |-> tok, status |-> v.status,
                     detail |-> v.detail, challenge |-> v.challenge,
                     raised_headers |-> exc_headers(v),
                     response |-> IF v.status = 200 THEN NoResponse
                                  ELSE http_exception_handler(v)]
    /\ UNCHANGED <<users, lastResolved>>
    /\ UNCHANGED <<sessions, seeded>>

\* the query without its filter: the first row of the table
C22_FirstRow(uid) == IF Len(users) = 0 THEN 0 ELSE 1

\* ------------------------------------------------------- User Directory
\* db.query(User).filter(User.firebase_uid == uid).first(): the row id, 0 for None
filter_first(uid) ==
    LET S == {i \in 1..Len(users) : users[i].firebase_uid = uid} IN
    IF S = {} THEN 0 ELSE CHOOSE i \in S : \A j \in S : i <= j

\* unique=True on users.firebase_uid and on users.email: another row holds the value
UidTaken(uid, self) ==
    \E i \in 1..Len(users) : i # self /\ users[i].firebase_uid = uid

EmailTaken(email, self) ==
    \E i \in 1..Len(users) : i # self /\ users[i].email = email

\* the email is written on every login
C7_AlwaysSync(stored, email) == TRUE

\* a changed email is never noticed
C12_NeverSync(stored, email) == FALSE

\* user.email != token_data.get("email", "")
EmailDiffers(stored, email) == stored # email

\* the except clause of get_current_user
ResolveFailure == [status |-> 500, detail |-> <<"Failed to retrieve user data">>]

Lookup ==
    \E q \in InFlight :
    /\ q.pc = "resolve"
    /\ LET u == filter_first(q.uid)
           prior == lastResolved
       IN
       IF q.uid = ""
       THEN /\ reqs' = Step(q, Finish(q, ResolveFailure.status))
            /\ last' = [op |-> "lookup", uid |-> q.uid, email |-> q.email, found |-> 0,
                        branch |-> "missing_uid", status |-> ResolveFailure.status,
                        detail |-> ResolveFailure.detail, prior |-> prior,
                        returned |-> FALSE, wrote |-> q.wrote]
            /\ UNCHANGED lastResolved
       ELSE IF u = 0
       THEN /\ reqs' = Step(q, [q EXCEPT !.pc = "create", !.branch = "create",
                                                 !.read = TRUE])
            /\ last' = [op |-> "lookup", uid |-> q.uid, email |-> q.email, found |-> 0,
                        branch |-> "create", status |-> 0, detail |-> << >>,
                        prior |-> prior, returned |-> FALSE, wrote |-> q.wrote]
            /\ UNCHANGED lastResolved
       ELSE IF EmailDiffers(users[u].email, q.email)
       THEN /\ reqs' = Step(q, [q EXCEPT !.pc = "update", !.branch = "update",
                                                 !.cur = u, !.role = users[u].role,
                                                 !.read = TRUE,
                                                 !.name = "", !.display_name = ""])
            /\ last' = [op |-> "lookup", uid |-> q.uid, email |-> q.email, found |-> u,
                        branch |-> "update", status |-> 0, detail |-> << >>,
                        prior |-> prior, returned |-> FALSE, wrote |-> q.wrote]
            /\ UNCHANGED lastResolved
       ELSE /\ reqs' = Step(q, Return([q EXCEPT !.branch = "found", !.read = TRUE],
                                           u, users[u].role))
            /\ last' = [op |-> "lookup", uid |-> q.uid, email |-> q.email, found |-> u,
                        branch |-> "found", status |-> 0, detail |-> << >>,
                        prior |-> prior, returned |-> TRUE, wrote |-> q.wrote]
            /\ lastResolved' = [uid |-> q.uid, email |-> q.email, id |-> u]
    /\ UNCHANGED users
    /\ UNCHANGED <<sessions, seeded>>

\* db.add(user); db.commit() of the create branch
Insert ==
    \E q \in InFlight :
    /\ q.pc = "create"
    /\ LET uidDup == UidTaken(q.uid, 0)
           emailDup == EmailTaken(q.email, 0)
           id == Len(users) + 1
       IN
       IF uidDup \/ emailDup
       THEN /\ reqs' = Step(q, Finish(q, ResolveFailure.status))
            /\ last' = [op |-> "insert", uid |-> q.uid, email |-> q.email,
                        name |-> q.name, display_name |-> q.display_name,
                        uidDup |-> uidDup, emailDup |-> emailDup, id |-> filter_first(q.uid),
                        status |-> ResolveFailure.status, detail |-> ResolveFailure.detail]
            /\ UNCHANGED <<users, lastResolved>>
       ELSE /\ users' = Append(users, NewUser(q.uid, q.email, token_name(q)))
            /\ reqs' = Step(q, [q EXCEPT !.pc = "refresh", !.cur = id, !.wrote = TRUE,
                                          !.name = "", !.display_name = ""])
            /\ last' = [op |-> "insert", uid |-> q.uid, email |-> q.email,
                        name |-> q.name, display_name |-> q.display_name,
                        uidDup |-> FALSE, emailDup |-> FALSE, id |-> id,
                        status |-> 0, detail |-> << >>]
            /\ lastResolved' = [uid |-> q.uid, email |-> q.email, id |-> id]
    /\ UNCHANGED <<sessions, seeded>>

\* the commit writes the row back as the request loaded it
C15_WriteLoadedRow(row, q) == [row EXCEPT !.email = q.email, !.role = q.role]

\* user.email = token_data.get("email", ""): the commit updates the one
\* attribute that was set, of the row request q loaded
sync_email(row, q) == [row EXCEPT !.email = q.email]

\* user.email = ...; db.commit() of the email-sync branch
Update ==
    \E q \in InFlight :
    /\ q.pc = "update"
    /\ IF EmailTaken(q.email, q.cur)
       THEN /\ reqs' = Step(q, Finish(q, ResolveFailure.status))
            /\ last' = [op |-> "update", uid |-> q.uid, email |-> q.email,
                        loaded_role |-> q.role,
                        emailDup |-> TRUE, id |-> q.cur,
                        status |-> ResolveFailure.status, detail |-> ResolveFailure.detail]
            /\ UNCHANGED <<users, lastResolved>>
       ELSE /\ users' = [users EXCEPT ![q.cur] = sync_email(@, q)]
            /\ reqs' = Step(q, [q EXCEPT !.pc = "refresh", !.wrote = TRUE])
            /\ last' = [op |-> "update", uid |-> q.uid, email |-> q.email,
                        loaded_role |-> q.role,
                        emailDup |-> FALSE, id |-> q.cur, status |-> 0, detail |-> << >>]
            /\ lastResolved' = [uid |-> q.uid, email |-> q.email, id |-> q.cur]
    /\ UNCHANGED <<sessions, seeded>>

\* db.refresh(user) after the insert; after the update's commit the expired
\* row is loaded again by the read of user.name in the log line
Refresh ==
    \E q \in InFlight :
    /\ q.pc = "refresh"
    /\ reqs' = Step(q, Return([q EXCEPT !.read = TRUE], q.cur, users[q.cur].role))
    /\ last' = [op |-> "refresh", id |-> q.cur]
    /\ UNCHANGED <<users, lastResolved>>
    /\ UNCHANGED <<sessions, seeded>>

\* the store cannot be reached: the query, the commit or the refresh the
\* request is about to make raises; each is inside the try block of
\* get_current_user
StoreDown ==
    \E q \in InFlight :
    /\ q.pc \in {"resolve", "create", "update", "refresh"}
    /\ reqs' = Step(q, Finish(q, ResolveFailure.status))
    /\ last' = [op |-> "store_error", stage |-> q.pc, uid |-> q.uid,
                email |-> q.email, status |-> ResolveFailure.status,
                detail |-> ResolveFailure.detail]
    /\ UNCHANGED <<users, lastResolved>>
    /\ UNCHANGED <<sessions, seeded>>

\* ------------------------------------------------------- Role Hierarchy
\* the role_hierarchy dict of check_role_permission (and of assign_role)
role_hierarchy ==
    [role \in Roles |->
        CASE role = "Deacon" -> 1
          [] role = "Elder" -> 2
          [] role = "Apostle" -> 3
          [] role = "Nation Seer" -> 4]

\* role_hierarchy.get(role, 0)
RoleLevel(role) == IF role \in DOMAIN role_hierarchy THEN role_hierarchy[role] ELSE 0

\* the comparison made strict
C1_StrictCheck(user_role, required_role) ==
    RoleLevel(user_role) > RoleLevel(required_role)

\* a grant that is used up by being checked: the check that follows a check
\* says no
C21_OnceOnly(user_role, required_role) ==
    /\ RoleLevel(user_role) >= RoleLevel(required_role)
    /\ last.op # "check"

check_role_permission(user_role, required_role) ==
    RoleLevel(user_role) >= RoleLevel(required_role)

\* a guard that admits the named role only
C2_ExactRole(user_role, required_role) ==
    IF user_role # required_role
    THEN [status |-> 403,
          detail |-> <<"Insufficient permissions. Required role: ", required_role,
                       ". Your role: ", user_role>>]
    ELSE [status |-> 200, detail |-> << >>]

\* role_checker of require_role(required_role)
require_role(user_role, required_role) ==
    IF ~check_role_permission(user_role, required_role)
    THEN [status |-> 403,
          detail |-> <<"Insufficient permissions. Required role: ", required_role,
                       ". Your role: ", user_role>>]
    ELSE [status |-> 200, detail |-> << >>]

\* role_checker of require_minimum_role(minimum_role)
require_minimum_role(user_role, minimum_role) ==
    IF ~check_role_permission(user_role, minimum_role)
    THEN [status |-> 403,
          detail |-> <<"Insufficient permissions. Minimum required role: ", minimum_role,
                       ". Your role: ", user_role>>]
    ELSE [status |-> 200, detail |-> << >>]

\* permissions_map of get_user_permissions
permissions_map ==
    [role \in Roles |->
        CASE role = "Deacon" ->
                {"view_prophecies", "create_basic_prophecies", "join_prayer_sessions"}
          [] role = "Elder" ->
                {"view_prophecies", "create_prophecies", "manage_prayer_sessions",
                 "access_bible_characters", "view_holy_land"}
          [] role = "Apostle" ->
                {"view_prophecies", "create_prophecies", "manage_prayer_sessions",
                 "access_bible_characters", "view_holy_land",
                 "create_scroll_compositions", "manage_users", "start_livestreams"}
          [] role = "Nation Seer" ->
                {"view_prophecies", "create_prophecies", "manage_prayer_sessions",
                 "access_bible_characters", "view_holy_land",
                 "create_scroll_compositions", "manage_users", "start_livestreams",
                 "manage_roles", "access_all_modules", "prophetic_oversight"}]

\* permissions_map.get(user.role, [])
get_user_permissions(role) ==
    IF role \in DOMAIN permissions_map THEN permissions_map[role] ELSE {}

\* the "permissions" of GET /my-permissions: the handler's own
\* permissions_map, looked up with current_user.role
get_my_permissions(role) ==
    LET permissions_map_ ==
          [r \in Roles |->
              CASE r = "Deacon" ->
                      {"view_prophecies", "create_basic_prophecies", "join_prayer_sessions"}
                [] r = "Elder" ->
                      {"view_prophecies", "create_prophecies", "manage_prayer_sessions",
                       "access_bible_characters", "view_holy_land"}
                [] r = "Apostle" ->
                      {"view_prophecies", "create_prophecies", "manage_prayer_sessions",
                       "access_bible_characters", "view_holy_land",
                       "create_scroll_compositions", "manage_users", "start_livestreams",
                       "scroll_seal_access"}
                [] r = "Nation Seer" ->
                      {"view_prophecies", "create_prophecies", "manage_prayer_sessions",
                       "access_bible_characters", "view_holy_land",
                       "create_scroll_compositions", "manage_users", "start_livestreams",
                       "manage_roles", "access_all_modules", "prophetic_oversight",
                       "scroll_seal_access", "nation_wide_authority"}]
    IN IF role \in DOMAIN permissions_map_ THEN permissions_map_[role] ELSE {}

\* the "roles" of GET /roles: for each role its level and its permissions
get_roles ==
    [r \in Roles |->
        CASE r = "Deacon" ->
                [level |-> 1,
                 permissions |->
                    {"view_prophecies", "create_basic_prophecies", "join_prayer_sessions"}]
          [] r = "Elder" ->
                [level |-> 2,
                 permissions |->
                    {"view_prophecies", "create_prophecies", "manage_prayer_sessions",
                     "access_bible_characters", "view_holy_land"}]
          [] r = "Apostle" ->
                [level |-> 3,
                 permissions |->
                    {"view_prophecies", "create_prophecies", "manage_prayer_sessions",
                     "access_bible_characters", "view_holy_land",
                     "create_scroll_compositions", "manage_users", "start_livestreams",
                     "scroll_seal_access"}]
          [] r = "Nation Seer" ->
                [level |-> 4,
                 permissions |->
                    {"view_prophecies", "create_prophecies", "manage_prayer_sessions",
                     "access_bible_characters", "view_holy_land",
                     "create_scroll_compositions", "manage_users", "start_livestreams",
                     "manage_roles", "access_all_modules", "prophetic_oversight",
                     "scroll_seal_access", "nation_wide_authority"}]]

\* role_checker of verify_token_and_role(required_role), the guard of
\* GET /scroll-seal; current_user is never falsy when it runs
verify_token_and_role(user_role, required_role) ==
    IF RoleLevel(user_role) < RoleLevel(required_role)
    THEN [status |-> 403,
          detail |-> <<"Insufficient EXOUSIA. Required role: ", required_role,
                       ". Your role: ", user_role>>]
    ELSE [status |-> 200, detail |-> << >>]

\* the role test of GET /scroll-license/requests and GET /scroll-license/stats
get_scroll_license_requests(user_role) ==
    IF user_role \notin {"apostle", "nation_seer"}
    THEN [status |-> 403, detail |-> <<"Insufficient EXOUSIA level">>]
    ELSE [status |-> 200, detail |-> << >>]

\* the role test of POST /scroll-license/seed-apostolic-accounts
seed_apostolic_accounts(user_role) ==
    IF user_role # "nation_seer"
    THEN [status |-> 403, detail |-> <<"Nation Seer access required">>]
    ELSE [status |-> 200, detail |-> << >>]

\* --------------------------------------------------------- Access Guard
\* the guard an endpoint depends on: Depends(get_current_user),
\* Depends(require_role(r)), Depends(require_minimum_role(r)),
\* Depends(verify_token_and_role(r)), or Depends(get_current_user) followed
\* by the handler's own test of current_user.role; required is the role the
\* endpoint is documented to ask for
Endpoints ==
    {[guard |-> "get_current_user", required |-> "Deacon"]}
    \cup {[guard |-> g, required |-> q] :
            g \in {"require_role", "require_minimum_role"}, q \in Roles}
    \cup {[guard |-> "verify_token_and_role", required |-> "Apostle"],
          [guard |-> "get_scroll_license_requests", required |-> "Apostle"],
          [guard |-> "seed_apostolic_accounts", required |-> "Nation Seer"]}

Guard(ep, user_role) ==
    CASE ep.guard = "require_role" -> require_role(user_role, ep.required)
      [] ep.guard = "require_minimum_role" -> require_minimum_role(user_role, ep.required)
      [] ep.guard = "verify_token_and_role" ->
            verify_token_and_role(user_role, ep.required)
      [] ep.guard = "get_scroll_license_requests" -> get_scroll_license_requests(user_role)
      [] ep.guard = "seed_apostolic_accounts" -> seed_apostolic_accounts(user_role)
      [] OTHER -> [status |-> 200, detail |-> << >>]

\* the guard of an endpoint whose handler is not modelled further
Check ==
    \E q \in InFlight :
    /\ q.pc = "check"
    /\ \E ep \in Endpoints :
         LET g == Guard(ep, q.role)
         IN
         /\ reqs' = Step(q, Finish(q, g.status))
         /\ last' = [op |-> "check", ep |-> ep, role |-> q.role, id |-> q.cur,
                     uid |-> q.uid, email |-> q.email, via |-> q.branch,
                     wrote |-> q.wrote,
                     admitted |-> g.status = 200, status |-> g.status, detail |-> g.detail]
    /\ UNCHANGED <<users, lastResolved>>
    /\ UNCHANGED <<sessions, seeded>>

\* --------------------------------------------------------- assign_role
\* role_data of POST /assign-role; user_id 0 and role "" stand for a missing key
Bodies ==
    {[user_id |-> 0, role |-> "Elder"], [user_id |-> 1, role |-> ""],
     [user_id |-> 1, role |-> "Bishop"]}
    \cup [user_id : 1..Cardinality(Subjects), role : Roles]

\* the endpoint behind require_elder()
C24_RequireElder == [guard |-> "require_minimum_role", required |-> "Elder"]

\* require_apostle() = require_minimum_role(RoleEnum.APOSTLE)
require_apostle == [guard |-> "require_minimum_role", required |-> "Apostle"]

\* RoleEnum(new_role_str) raises ValueError for anything but a role's value
ValidRole(role_str) == role_str \in Roles

\* only a higher role is refused: one's own rank can be granted
C3_GrantOwnRank(current_user_level, new_role_level) ==
    ~(current_user_level < new_role_level)

\* current_user_level <= new_role_level is refused
can_assign(current_user_level, new_role_level) == ~(current_user_level <= new_role_level)

\* the handler up to the authority check: validation, the query for the
\* target, the comparison of the levels
assign_role(user_role, body) ==
    IF body.user_id = 0 \/ body.role = ""
    THEN [status |-> 400, detail |-> <<"User ID and role are required">>, read |-> FALSE]
    ELSE IF ~ValidRole(body.role)
    THEN [status |-> 400, detail |-> <<"Invalid role: ", body.role>>, read |-> FALSE]
    ELSE IF body.user_id \notin 1..Len(users)
    THEN [status |-> 404, detail |-> <<"User not found">>, read |-> TRUE]
    ELSE IF ~can_assign(RoleLevel(user_role), RoleLevel(body.role))
    THEN [status |-> 403, detail |-> <<"You can only assign roles lower than your own">>,
          read |-> TRUE]
    ELSE [status |-> 200, detail |-> << >>, read |-> TRUE]

\* POST /assign-role up to its commit: the guard, which does no database
\* operation, and then the handler with its one query
AssignRole ==
    \E q \in InFlight :
    /\ q.pc = "check"
    /\ \E body \in Bodies :
         LET g == Guard(require_apostle, q.role)
             a == IF g.status = 200 THEN assign_role(q.role, body)
                  ELSE [status |-> g.status, detail |-> g.detail, read |-> FALSE]
             q2 == [q EXCEPT !.read = @ \/ a.read]
         IN
         /\ reqs' = Step(q, IF a.status = 200
                             THEN [q2 EXCEPT !.pc = "assign_commit", !.body = body,
                                             !.target = body.user_id]
                             ELSE Finish(q2, a.status))
         /\ last' = [op |-> "assign", role |-> q.role, id |-> q.cur, body |-> body,
                     uid |-> q.uid, email |-> q.email, via |-> q.branch,
                     wrote |-> q.wrote,
                     targetExists |-> body.user_id \in 1..Len(users),
                     guarded |-> g.status = 200,
                     status |-> a.status, detail |-> a.detail]
    /\ UNCHANGED <<users, lastResolved>>
    /\ UNCHANGED <<sessions, seeded>>

\* user.role = new_role; db.commit()
AssignCommit ==
    \E q \in InFlight :
    /\ q.pc = "assign_commit"
    /\ /\ users' = [users EXCEPT ![q.target].role = q.body.role]
       /\ reqs' = Step(q, Finish([q EXCEPT !.wrote = TRUE], 200))
       /\ last' = [op |-> "assign_commit", role |-> q.role, id |-> q.cur,
                   stored_role |-> users[q.cur].role, target |-> q.target,
                   old_role |-> users[q.target].role, new_role |-> q.body.role,
                   status |-> 200, detail |-> << >>]
       /\ lastResolved' = NoPrior
    /\ UNCHANGED <<sessions, seeded>>

Next ==
    \/ Verify
    \/ Lookup
    \/ Insert
    \/ Update
    \/ Refresh
    \/ StoreDown
    \/ Check
    \/ AssignRole
    \/ AssignCommit

Spec == Init /\ [][Next]_vars

\* --------------------------------------------------------- start_stream
\* what the commit of the new PrayerSession does: it succeeds, or the
\* store raises an error whose text is the store's own
StorageErrors ==
    {"connection refused", "INSERT INTO prayer_sessions (title, creator_id) failed"}

\* stream_data of POST /start-stream, with and without its "title" key
StreamBodies == {[title |-> "t"], [title |-> NoClaim]}

\* the handler: stream_data["title"] raises KeyError when the key is
\* missing; whatever is raised is answered with its text in the detail
start_stream(stream_data, commit) ==
    LET e == IF stream_data.title = NoClaim THEN "'title'" ELSE commit IN
    IF e = "ok"
    THEN [status |-> 200, detail |-> << >>, challenge |-> FALSE]
    ELSE [status |-> 500, detail |-> <<"Error starting stream: ", e>>,
          challenge |-> FALSE]

\* POST /start-stream, behind Depends(get_current_user)
StartStream ==
    \E q \in InFlight :
    /\ q.pc = "check"
    /\ \E stream_data \in StreamBodies, commit \in {"ok"} \cup StorageErrors :
         LET r == start_stream(stream_data, commit) IN
         /\ sessions' = IF r.status = 200 THEN sessions + 1 ELSE sessions
         /\ reqs' = Step(q, [Finish([q EXCEPT !.wrote = @ \/ r.status = 200], r.status)
                                EXCEPT !.ended = "handler"])
         /\ last' = [op |-> "start_stream", stream_data |-> stream_data,
                     id |-> q.cur, status |-> r.status, detail |-> r.detail,
                     response |-> IF r.status = 200 THEN NoResponse
                                  ELSE http_exception_handler(r)]
    /\ UNCHANGED <<users, lastResolved, seeded>>

\* the access-control core together with the feature handler
NextFeature ==
    \/ Next
    \/ StartStream

SpecFeature == Init /\ [][NextFeature]_vars

\* ---------------------------------------------------- deactivated users
\* a row of the users table whose is_active column has been set to False;
\* the application itself never writes the column
DeactivatedUser(role) == [SeedUser(role) EXCEPT !.is_active = FALSE]

\* the application starts on a store that holds a deactivated user
InitDeactivated ==
    /\ users \in {<<DeactivatedUser(role)>> : role \in Roles}
    /\ seeded = users
    /\ sessions = 0
    /\ reqs = EmptyBag
    /\ last = NoEvent
    /\ lastResolved = NoPrior

SpecDeactivated == InitDeactivated /\ [][Next]_vars

\* ================================================================ claims
\* the rank of a role as the specification fixes it
RankOf(role) ==
    CASE role = "Deacon" -> 1
      [] role = "Elder" -> 2
      [] role = "Apostle" -> 3
      [] role = "Nation Seer" -> 4
      [] OTHER -> 0

RankGuards == {"require_role", "require_minimum_role"}

RowsOf(uid) == {i \in 1..Len(users) : users[i].firebase_uid = uid}

\* C1: every rank check made for a principal of role a against a required
\* role b (by the two guards, and by the guard of POST /assign-role) says
\* yes exactly when rank(a) >= rank(b), with Deacon=1, Elder=2, Apostle=3,
\* Nation Seer=4.
C1_RankCheck ==
    /\ (last.op = "check" /\ last.ep.guard \in RankGuards)
         => (last.admitted <=> RankOf(last.role) >= RankOf(last.ep.required))
    /\ last.op = "assign"
         => (last.guarded <=> RankOf(last.role) >= RankOf(require_apostle.required))

\* an Elder is admitted where Elder is required: the ranks are equal
C1_Witness ==
    /\ last.op = "check" /\ last.ep.guard \in RankGuards
    /\ last.role = "Elder" /\ last.ep.required = "Elder" /\ last.admitted

\* C2: require_role(r) and require_minimum_role(r) decide alike: whichever of
\* the two guards a request met, the other one gives the same answer for the
\* same principal role and required role; the answer is admission iff the
\* principal's rank is at least rank(r), and 403 otherwise.
C2_GuardsAgree ==
    (last.op = "check" /\ last.ep.guard \in RankGuards) =>
        LET other == IF last.ep.guard = "require_role"
                     THEN require_minimum_role(last.role, last.ep.required)
                     ELSE require_role(last.role, last.ep.required)
        IN
        /\ last.status = other.status
        /\ last.status \in {200, 403}
        /\ last.status = 200 <=> RankOf(last.role) >= RankOf(last.ep.required)

\* a Nation Seer passes require_role(Apostle): no exact match is asked for
C2_Witness ==
    /\ last.op = "check" /\ last.ep.guard = "require_role"
    /\ last.role = "Nation Seer" /\ last.ep.required = "Apostle"
    /\ last.status = 200

\* C3 as stated: a role assignment to an existing user is permitted iff
\* rank(assigner) > rank(granted role), for every assigner role.
C3_AssignIffHigherRank ==
    (last.op = "assign" /\ last.targetExists /\ last.body.role \in Roles) =>
        (last.status = 200 <=> RankOf(last.role) > RankOf(last.body.role))

\* C3 as amended: a role assignment to an existing user is permitted iff the
\* assigner is an Apostle or higher (the guard of the endpoint) and
\* rank(assigner) > rank(granted role); every other one is answered 403, and
\* only a permitted one is committed.
C3_AssignIffApostleAndHigherRank ==
    /\ (last.op = "assign" /\ last.targetExists /\ last.body.role \in Roles) =>
          /\ last.status \in {200, 403}
          /\ last.status = 200 <=>
                /\ RankOf(last.role) >= RankOf("Apostle")
                /\ RankOf(last.role) > RankOf(last.body.role)
    /\ last.op = "assign_commit" =>
          /\ RankOf(last.role) >= RankOf("Apostle")
          /\ RankOf(last.role) > RankOf(last.new_role)
          /\ last.new_role # "Nation Seer"

\* a Nation Seer has granted Apostle
C3_Witness ==
    /\ last.op = "assign_commit"
    /\ last.role = "Nation Seer" /\ last.new_role = "Apostle"

\* C4: the permission table grows with the rank: the permissions of a
\* resolved Principal include those of every role of lower rank.
C4_PermissionsMonotone ==
    last.op = "check" =>
        \A lower \in Roles :
            RankOf(lower) <= RankOf(last.role) =>
                get_user_permissions(lower) \subseteq get_user_permissions(last.role)

\* the requests that took the create branch for subject uid and are through
\* with resolve, whatever its outcome
FirstLoginsDone(uid) ==
    {q \in Requests : /\ q.branch = "create" /\ q.uid = uid
                      /\ q.pc \in {"check", "assign_commit", "done"}}

CountOf(S) == BagCardinality([q \in S |-> CopiesIn(q, reqs)])

\* C5: the store never holds two Principals for one subject, and once two
\* first-login resolves for the same new subject have both finished it holds
\* exactly one.
C5_OnePrincipalPerSubject ==
    \A uid \in Subjects :
        /\ Cardinality(RowsOf(uid)) <= 1
        /\ CountOf(FirstLoginsDone(uid)) >= 2 => Cardinality(RowsOf(uid)) = 1

\* C6: the request whose insert hits the uniqueness constraint on the
\* subject does not end in an error: it is answered with the Principal the
\* other request inserted.
C6_LoserReResolves ==
    (last.op = "insert" /\ last.uidDup) => last.status # ResolveFailure.status

\* C7: a resolve that follows a resolve of the same credential (same subject,
\* same email), with no write to the store in between, returns the Principal
\* of the same id and writes nothing: it returns from the lookup.
C7_ResolveIdempotent ==
    (/\ last.op = "lookup"
     /\ last.prior # NoPrior
     /\ last.prior.uid = last.uid /\ last.prior.email = last.email) =>
        /\ last.branch = "found"
        /\ last.found = last.prior.id
        /\ last.returned /\ ~last.wrote

\* the second of two resolves of one credential has returned from its
\* lookup, the first request being answered already
C7_Witness ==
    /\ last.op = "lookup" /\ last.prior # NoPrior
    /\ last.prior.uid = last.uid /\ last.prior.email = last.email
    /\ last.branch = "found" /\ ~last.wrote
    /\ BagCardinality(reqs) = 2
    /\ \E q \in Requests : q.pc = "done" /\ q.ended = "handler" /\ q.wrote

\* C8: a credential the provider accepts whose expiry lies in the past is
\* answered 401 with the reason "Token expired".
C8_ExpiredReason ==
    (/\ last.op = "verify" /\ last.tok.res = "ok" /\ last.tok.uid # ""
     /\ last.tok.exp # NoExp /\ last.tok.exp < Now) =>
        /\ last.status = 401
        /\ last.detail = <<"Token expired">>

\* C9: a credential decoded without a subject is answered 401 with a reason
\* of its own, one that no error of the provider is answered with.
C9_MissingSubjectReason ==
    (last.op = "verify" /\ last.tok.res = "ok" /\ last.tok.uid = "") =>
        /\ last.status = 401
        /\ \A e \in ProviderErrors :
              last.detail # verify_firebase_token(ErrorToken(e)).detail

\* C10: a request whose token verification failed is answered at once: it
\* never queries the store and never commits to it.
C10_NoStoreIOAfterAuthFailure ==
    /\ \A q \in Requests :
          q.ended = "verify" => q.pc = "done" /\ ~q.read /\ ~q.wrote /\ q.branch = ""
    /\ (last.op = "verify" /\ last.status # 200) =>
          \E q \in Requests : q.ended = "verify"

\* a request was refused by the Token Verifier while another went on to write
C10_Witness ==
    /\ \E q \in Requests : q.ended = "verify" /\ ~q.read /\ ~q.wrote
    /\ \E q \in Requests : q.wrote

ResolveBranches == {"found", "create", "update"}

\* C11: the stages of a request run in the order verify, resolve, rank
\* check: a rank check is only evaluated for a request whose token was
\* verified (it carries a subject) and whose Principal was resolved from the
\* store (the row of that subject), and a request answered by a guard or a
\* handler (Authorized, Forbidden) has queried the store in resolve; a
\* request answered by the Token Verifier or by a failed resolve has been
\* through no rank check.
C11_StagesInOrder ==
    /\ last.op \in {"check", "assign"} =>
          /\ last.uid \in Subjects
          /\ last.via \in ResolveBranches
          /\ last.id \in 1..Len(users)
          /\ users[last.id].firebase_uid = last.uid
    /\ \A q \in Requests :
          /\ q.pc \in {"check", "assign_commit"} =>
                q.read /\ q.branch \in ResolveBranches /\ q.cur \in 1..Len(users)
          /\ (q.pc = "done" /\ q.ended = "handler") =>
                q.read /\ q.branch \in ResolveBranches
          /\ q.ended \in {"verify", "resolve"} =>
                q.pc = "done"

\* a request is refused by a guard (403) after its Principal was found
C11_Witness ==
    /\ last.op = "check" /\ last.status = 403
    /\ last.via = "found" /\ last.id \in 1..Len(users)
    /\ \E q \in Requests : q.pc = "done" /\ q.ended = "handler" /\ q.read

\* the requests that have committed an email sync
Syncs == {q \in Requests : q.branch = "update" /\ q.wrote}

\* C12: what resolve wrote stays committed when the rank check that follows
\* refuses the request: after a Forbidden (403) answer the store holds the
\* Principal of the request's subject (provisioned by this very request when
\* the subject was new), and its stored email is the email of the request's
\* credential, unless another request has synced another email since.
C12_WriteSurvivesForbidden ==
    (last.op \in {"check", "assign"} /\ last.status = 403) =>
        /\ last.id \in 1..Len(users)
        /\ users[last.id].firebase_uid = last.uid
        /\ last.via \in {"create", "update"} => last.wrote
        /\ \/ users[last.id].email = last.email
           \/ CountOf(Syncs) >= 1 + (IF last.via = "update" THEN 1 ELSE 0)

\* a first login against a Nation Seer endpoint: provisioned as Deacon, then
\* refused, and the new row is in the store
C12_Witness ==
    /\ last.op = "check" /\ last.status = 403
    /\ last.via = "create" /\ last.wrote
    /\ last.role = "Deacon" /\ last.ep.required = "Nation Seer"
    /\ last.id = Len(users) /\ users[last.id].firebase_uid = last.uid
    /\ users[last.id].email = last.email

\* C13: the Principal a first login provisions has role Deacon and is
\* active, carries the subject and the email of the decoded claims, and is
\* named after a name claim of the credential, or "Unknown User" when the
\* credential carries none.
C13_ProvisionedAsDeacon ==
    (last.op = "insert" /\ last.status = 0) =>
        LET row == users[last.id]
            names == {last.name, last.display_name} \ {NoClaim}
        IN
        /\ last.id = Len(users)
        /\ row.role = "Deacon"
        /\ row.is_active
        /\ row.firebase_uid = last.uid
        /\ row.email = last.email
        /\ IF names = {} THEN row.name = "Unknown User" ELSE row.name \in names
        /\ last.name # NoClaim => row.name = last.name

\* a first login whose credential has no name claim at all
C13_Witness ==
    /\ last.op = "insert" /\ last.status = 0
    /\ last.name = NoClaim /\ last.display_name = NoClaim
    /\ users[last.id].name = "Unknown User"
    /\ users[last.id].role = "Deacon" /\ users[last.id].is_active

\* C14: when resolve finds the Principal with another email than the
\* credential's (the empty email included), the sync succeeds: the call does
\* not fail, and the stored email of that same Principal is the credential's
\* email once the update is committed; when the emails are equal the lookup
\* returns the Principal and no update is made.
C14_EmailSyncSucceeds ==
    /\ last.op = "update" =>
          /\ last.status # ResolveFailure.status
          /\ users[last.id].firebase_uid = last.uid
          /\ users[last.id].email = last.email
    /\ (last.op = "lookup" /\ last.found # 0) =>
          (last.branch = "found" <=> users[last.found].email = last.email)

\* C15: no step removes or renumbers a Principal or changes its external
\* subject, and the role of a Principal changes only in the commit of a
\* successful role assignment to that Principal: every step of the resolve
\* path (lookup, insert, email sync, refresh) and every guard leaves the
\* role of every existing Principal as it was.
C15_RoleIdSubjectFrame ==
    [][/\ Len(users') >= Len(users)
       /\ \A i \in 1..Len(users) :
             /\ users'[i].firebase_uid = users[i].firebase_uid
             /\ users'[i].role # users[i].role =>
                   /\ last'.op = "assign_commit"
                   /\ last'.target = i
                   /\ last'.status = 200
                   /\ users'[i].role = last'.new_role]_vars

\* an email sync has been committed for a Principal whose role was
\* reassigned after the syncing request had loaded it
C15_Witness ==
    /\ last.op = "update" /\ last.status = 0
    /\ users[last.id].email = last.email
    /\ users[last.id].role # last.loaded_role

\* C16: every role-gated endpoint decides by the rank comparison: it admits
\* a resolved Principal of role a iff rank(a) >= rank(r), r being the role
\* the endpoint requires; so a Nation Seer is admitted everywhere.
C16_EveryGateIsRankCheck ==
    (last.op = "check" /\ last.ep.guard # "get_current_user") =>
        (last.admitted <=> RankOf(last.role) >= RankOf(last.ep.required))

\* C17: every 401 response the application sends carries the
\* re-authentication challenge, the header WWW-Authenticate: Bearer,
\* whatever the reason the Token Verifier refused the credential for.
C17_ChallengeOn401 ==
    (last.op = "verify" /\ last.response.status_code = 401) =>
        <<"WWW-Authenticate", "Bearer">> \in last.response.headers

\* the detail of a response names the role
Mentions(detail, role) == \E i \in 1..Len(detail) : detail[i] = role

\* C18: every 403 of an authorization rejection states the role that was
\* required and the role the caller has: the 403 of require_role, of
\* require_minimum_role, of the scroll-seal guard, of the scroll-license
\* role tests, and of the role assignment (whose guard requires Apostle).
C18_ForbiddenNamesBothRoles ==
    /\ (last.op = "check" /\ last.status = 403) =>
          /\ Mentions(last.detail, last.ep.required)
          /\ Mentions(last.detail, last.role)
    /\ (last.op = "assign" /\ last.status = 403) =>
          /\ Mentions(last.detail, last.role)
          /\ ~last.guarded => Mentions(last.detail, require_apostle.required)

ResolveOps == {"lookup", "insert", "update", "refresh", "store_error"}

\* C20: the failure classes are kept apart: a failure of the store during
\* resolve (the store unreachable, a failed insert, a failed update) is
\* answered 500 with the reason of a failed resolution, never 401 or 403,
\* and a credential the Token Verifier refuses is answered 401, never 500.
C20_FailureClassesApart ==
    /\ (last.op \in ResolveOps /\ last.op # "refresh" /\ last.status # 0) =>
          /\ last.status = 500
          /\ last.detail = <<"Failed to retrieve user data">>
    /\ (last.op = "verify" /\ last.status # 200) =>
          /\ last.status = 401
          /\ last.response.status_code = 401
    /\ \A q \in Requests :
          /\ q.ended = "verify" => ~q.read
          /\ q.ended = "resolve" => q.pc = "done"

\* the store went away under a request that had committed its insert, while
\* another request was refused by the Token Verifier
C20_Witness ==
    /\ last.op = "store_error" /\ last.stage = "refresh" /\ last.status = 500
    /\ \E q \in Requests : q.ended = "verify"
    /\ \E q \in Requests : q.ended = "resolve" /\ q.wrote

\* C19: the body of a 500 response does not depend on the text of the
\* internal error behind it: a failed resolve is answered with one fixed
\* reason, and a start_stream whose commit failed is answered as it would
\* have been had the store raised any other text.
C19_500BodyIndependentOfError ==
    /\ (last.op \in {"lookup", "insert", "update", "store_error"} /\ last.status = 500) =>
          last.detail = ResolveFailure.detail
    /\ (/\ last.op = "start_stream" /\ last.response.status_code = 500
        /\ last.stream_data.title # NoClaim) =>
          \A other \in StorageErrors :
              http_exception_handler(start_stream(last.stream_data, other)) = last.response

C22_RunsAsOwnSubject ==
    /\ \A q \in Requests :
          q.pc \in {"update", "refresh", "check", "assign_commit"} =>
              /\ q.uid \in Subjects
              /\ q.cur \in 1..Len(users)
              /\ users[q.cur].firebase_uid = q.uid
    /\ last.op \in {"check", "assign"} => RowsOf(last.uid) = {last.id}

\* two requests of two subjects are both before their guard, each with its
\* own Principal
C22_Witness ==
    \E q1 \in Requests, q2 \in Requests :
        /\ q1.pc = "check" /\ q2.pc = "check"
        /\ q1.uid # q2.uid /\ q1.cur # q2.cur
        /\ users[q1.cur].firebase_uid = q1.uid
        /\ users[q2.cur].firebase_uid = q2.uid

\* C23: the local expiry check asks for an expiry strictly in the future: a
\* credential the provider decoded, with a subject, passes the Token
\* Verifier iff it has no expiry claim or its expiry is greater than the
\* time of the verification; an expiry equal to that time is refused.
C23_ExpiryStrictlyInFuture ==
    (last.op = "verify" /\ last.tok.res = "ok" /\ last.tok.uid # "") =>
        (last.status = 200 <=> (last.tok.exp = NoExp \/ last.tok.exp > Now))

\* the requests that are about to commit a role assignment
PendingAssign == {q \in Requests : q.pc = "assign_commit"}

\* C24: POST /assign-role asks for Apostle or higher: a request of a Deacon
\* or an Elder is answered 403 whatever its body (an Elder granting Deacon
\* included), and a rejected request (400 for a missing or invalid role, 404
\* for an unknown user, 403) changes the role of no Principal: its step
\* writes nothing and it does not go on to the commit.
C24_RejectedAssignChangesNothing ==
    [][last'.op = "assign" =>
          /\ last'.role \in {"Deacon", "Elder"} => last'.status = 403
          /\ last'.status # 200 =>
                /\ last'.status \in {400, 403, 404}
                /\ users' = users
                /\ CountOf(PendingAssign)' = CountOf(PendingAssign)]_vars

\* an Elder asked to make an existing user a Deacon and was refused
C24_Witness ==
    /\ last.op = "assign" /\ last.role = "Elder"
    /\ last.body.role = "Deacon" /\ last.targetExists
    /\ last.status = 403 /\ ~last.guarded
    /\ PendingAssign = {}

\* the highest rank held in a users table, 0 for an empty one
HighestRank(table) ==
    LET R == {RankOf(table[i].role) : i \in 1..Len(table)} IN
    IF R = {} THEN 0 ELSE CHOOSE r \in R : \A s \in R : s <= r

\* the Principals of a users table that hold Nation Seer
Seers(table) == {i \in 1..Len(table) : table[i].role = "Nation Seer"}

\* C25: role assignment escalates no privilege: whatever resolves and role
\* assignments have run, the highest rank held by a Principal is not above
\* the highest rank held when the application started (the Deacon of a
\* newly provisioned Principal aside), no more Principals hold Nation Seer
\* than did then, and the role a successful assign_role writes is strictly
\* below the rank of its assigner, as the request resolved it and as the
\* store holds it when the role is written.
C25_NoEscalation ==
    /\ HighestRank(users) <= HighestRank(<<NewUser("", "", "")>> \o seeded)
    /\ Cardinality(Seers(users)) <= Cardinality(Seers(seeded))
    /\ last.op = "assign_commit" =>
          /\ RankOf(last.new_role) < RankOf(last.role)
          /\ RankOf(last.new_role) < RankOf(last.stored_role)

\* C26: a successful assign_role leaves the role of a target alone whose
\* rank is at or above the assigner's: an assigner demotes no peer, no
\* superior, and not themselves.
C26_NoDemotionOfPeerOrSuperior ==
    (last.op = "assign_commit" /\ RankOf(last.old_role) >= RankOf(last.role)) =>
        users[last.target].role = last.old_role

\* C27: when an assign_role commits a role, its assigner is stored, at that
\* moment, with a role strictly above the one committed: an assigner who
\* has been demoted since the request was authenticated completes no grant
\* that the new rank does not allow.
C27_AssignerStillOutranksAtCommit ==
    last.op = "assign_commit" =>
        /\ RankOf(last.stored_role) > RankOf(last.new_role)
        /\ RankOf(last.stored_role) >= RankOf(require_apostle.required)

\* C28: with the store reachable, the emails other Principals hold stand in
\* nobody's way: the insert for a subject that has no Principal yet
\* provisions one, and an email sync is committed, also when another
\* Principal is stored with the same email or, like this one, with the
\* empty email of a credential that carries none.
C28_SharedEmailIsNoObstacle ==
    /\ (last.op = "insert" /\ ~last.uidDup) =>
          /\ last.status = 0
          /\ RowsOf(last.uid) = {last.id}
    /\ last.op = "update" => last.status = 0

\* C29: a deactivated Principal is admitted nowhere: no guard (of an
\* endpoint, or of POST /assign-role) lets a request through whose Principal
\* is stored with is_active false.
C29_DeactivatedNeverAdmitted ==
    /\ (last.op = "check" /\ last.admitted) => users[last.id].is_active
    /\ (last.op = "assign" /\ last.guarded) => users[last.id].is_active

\* C30: a role has one permission set, wherever it is computed: for the
\* Principal an endpoint behind get_current_user has admitted, GET
\* /my-permissions reports the permissions get_user_permissions gives for
\* its role, and GET /roles shows, for every role, the permissions
\* get_user_permissions gives for that role.
C30_OnePermissionSetPerRole ==
    (last.op = "check" /\ last.ep.guard = "get_current_user" /\ last.admitted) =>
        /\ get_my_permissions(last.role) = get_user_permissions(last.role)
        /\ \A role \in Roles :
              get_roles[role].permissions = get_user_permissions(role)
====
